---- MODULE Spec2Model ----
(***************************************************************************)
(* Model of native-audio/src/lib.rs: the AudioPlayer playback controller   *)
(* (sink, current_file, duration, start_time) driven by load_file, seek,   *)
(* play, pause, stop, set_volume and the four queries.                     *)
(*                                                                         *)
(* Time is counted in whole clock ticks (one tick = one second); durations *)
(* and seek positions are whole ticks.  An Option<T> is a sequence of      *)
(* length 0 (None) or 1 (Some(v)).                                         *)
(***************************************************************************)
EXTENDS Integers, Sequences, FiniteSets, TLC

\* ------------------------------------------------------------------ bounds
\* The clock stops advancing at MaxTime ticks.
MaxTime == 3
\* seek is called with positions -1 .. MaxPos.
MaxPos == 4

\* get_waveform is run on files of at most MaxSamples samples,
MaxSamples == 3
\* whose reported duration is at most MaxDurHalves half ticks.
MaxDurHalves == 3

\* ------------------------------------------------------------ Option<T>
None == <<>>
Some(v) == <<v>>
Unwrap(o) == o[1]

Min(a, b) == IF a < b THEN a ELSE b
Max(a, b) == IF a > b THEN a ELSE b

\* ------------------------------------------------- the decoder's view of files
\* Files and the output device belong to the environment and may change between
\* any two opens, so every open draws what it sees from Files and every
\* Sink::try_new draws whether the device accepts a new sink.
\* What File::open, Decoder::new, total_duration(), sample_rate(), channels()
\* and the sample iterator report for a file.  rate is frames per tick.
Missing == [open |-> FALSE, decodes |-> FALSE, hasDur |-> FALSE, dur |-> 0, rate |-> 0, channels |-> 0, samples |-> 0]
Corrupt == [open |-> TRUE, decodes |-> FALSE, hasDur |-> FALSE, dur |-> 0, rate |-> 0, channels |-> 0, samples |-> 0]
\* a stereo file of three ticks, duration reported
Song == [open |-> TRUE, decodes |-> TRUE, hasDur |-> TRUE, dur |-> 3, rate |-> 1, channels |-> 2, samples |-> 6]
\* a mono file whose decoder reports no duration
Stream == [open |-> TRUE, decodes |-> TRUE, hasDur |-> FALSE, dur |-> 0, rate |-> 1, channels |-> 1, samples |-> 2]
\* a mono file whose header reports two ticks but that holds fewer samples
Short == [open |-> TRUE, decodes |-> TRUE, hasDur |-> TRUE, dur |-> 2, rate |-> 2, channels |-> 1, samples |-> 3]

Files == {Missing, Corrupt, Song, Stream, Short}
Paths == {"a.wav", "b.wav"}
Positions == (0 - 1) .. MaxPos
Volumes == (0 - 1) .. 2

VARIABLES
    sink,          \* Option<Sink>
    current_file,  \* Option<String>
    duration,      \* Duration, in ticks
    start_time,    \* Option<Instant>
    now,           \* the monotonic clock (Instant::now())
    last,          \* the last call: its name, result and return value (ret a number, flag a boolean)
    pre,           \* what the last call found: whether a sink and an anchor existed, and whether the sink was paused
    again,         \* the last call and the one before it were both stop
    sinceOp,       \* ticks elapsed since the last call returned
    seekArg,       \* Some(x) while the last calls were a successful seek(x) then play
    afterFailure,  \* "no", "yes" after a failed load/seek, "sought" once a seek succeeded after it
    wave,          \* a running get_waveform call: its inputs, locals and result
    threads,       \* per calling thread: the call it is in, the step it is at, the call's locals
    held,          \* per mutex: the thread whose guard is alive, or NoThread
    live           \* the number of Sink objects created and not yet dropped

vars == <<sink, current_file, duration, start_time, now, last, pre, again, sinceOp, seekArg, afterFailure, wave,
          threads, held, live>>

\* The record of the calls made one after another, and the stepwise view of calls.
history == <<last, pre, again, sinceOp, seekArg, afterFailure>>
stepwise == <<threads, held>>

\* The controller's fields as one value.
St == [sink |-> sink, current_file |-> current_file, duration |-> duration, start_time |-> start_time]

\* ------------------------------------------------------------- the sink
\* Sink::try_new followed by sink.append(source): the sink is created running
\* (not paused) with one source queued; `skipped` samples of the source were
\* consumed before it was appended.
NewSink(f, skipped) == [paused |-> FALSE, len |-> 1, queued |-> f.samples - skipped, perTick |-> f.rate * f.channels, volume |-> 1]

\* The output device renders one tick of audio from a sink that is not paused;
\* a source that has run out leaves the queue (len drops to 0).
Render(s) ==
    IF s = None \/ Unwrap(s).paused \/ Unwrap(s).len = 0 THEN s
    ELSE LET k == Unwrap(s)
             q == Max(0, k.queued - k.perTick)
         IN Some([k EXCEPT !.queued = q, !.len = IF q = 0 THEN 0 ELSE k.len])

\* ------------------------------------------------------------ operations
Ok(s) == [st |-> s, res |-> "ok", ret |-> 0, flag |-> FALSE]
Err(s, e) == [st |-> s, res |-> e, ret |-> 0, flag |-> FALSE]

\* stop as pause is written: refusing when there is no sink.
stop_requires_sink(s) ==
    IF s.sink # None THEN Ok([s EXCEPT !.sink = None, !.start_time = None]) ELSE Err(s, "NotLoaded")

\* stop that also forgets the cached duration.
stop_clears_duration(s) == Ok([s EXCEPT !.sink = None, !.start_time = None, !.duration = 0])

\* stop that drops the sink but forgets the anchor.
stop_keeps_anchor(s) == Ok([s EXCEPT !.sink = None])

stop(s) == Ok([s EXCEPT !.sink = None, !.start_time = None])

\* load_file that caches the duration of the second decode pass.
load_file_second_duration(s, p, f1, f2, dev) ==
    LET s1 == [s EXCEPT !.sink = None, !.start_time = None]
        dur == IF f2.hasDur THEN f2.dur ELSE 0
    IN IF ~f1.open THEN Err(s1, "Io")
       ELSE IF ~f1.decodes THEN Err(s1, "Decode")
       ELSE IF ~dev THEN Err(s1, "Device")
       ELSE IF ~f2.open THEN Err(s1, "Io")
       ELSE IF ~f2.decodes THEN Err(s1, "Decode")
       ELSE [st |-> [sink |-> Some(NewSink(f2, 0)), current_file |-> Some(p), duration |-> dur, start_time |-> None],
             res |-> "ok", ret |-> dur, flag |-> FALSE]

\* load_file that opens the file before stopping the current playback.
load_file_stops_late(s, p, f1, f2, dev) ==
    LET s1 == [s EXCEPT !.sink = None, !.start_time = None]
        dur == IF f1.hasDur THEN f1.dur ELSE 0
    IN IF ~f1.open THEN Err(s, "Io")
       ELSE IF ~f1.decodes THEN Err(s, "Decode")
       ELSE IF ~dev THEN Err(s1, "Device")
       ELSE IF ~f2.open THEN Err(s1, "Io")
       ELSE IF ~f2.decodes THEN Err(s1, "Decode")
       ELSE [st |-> [sink |-> Some(NewSink(f2, 0)), current_file |-> Some(p), duration |-> dur, start_time |-> None],
             res |-> "ok", ret |-> dur, flag |-> FALSE]

\* f1 is the file as the first open sees it, f2 as the reopen sees it.
load_file(s, p, f1, f2, dev) ==
    LET s1 == stop(s).st
        dur == IF f1.hasDur THEN f1.dur ELSE 0
    IN IF ~f1.open THEN Err(s1, "Io")
       ELSE IF ~f1.decodes THEN Err(s1, "Decode")
       ELSE IF ~dev THEN Err(s1, "Device")
       ELSE IF ~f2.open THEN Err(s1, "Io")
       ELSE IF ~f2.decodes THEN Err(s1, "Decode")
       ELSE [st |-> [sink |-> Some(NewSink(f2, 0)), current_file |-> Some(p), duration |-> dur, start_time |-> None],
             res |-> "ok", ret |-> dur, flag |-> FALSE]

\* The decoder's sample iterator: the file's interleaved samples in file order,
\* each named by its position.
Decode(f) == [i \in 1 .. f.samples |-> i]

\* The skip loop of seek: pull samples while skipped < samples_to_skip, stopping
\* early when the source runs out; what is left of the source goes to the sink.
RECURSIVE SkipLoop(_, _, _)
SkipLoop(source, skipped, samples_to_skip) ==
    IF skipped < samples_to_skip /\ source # <<>>
    THEN SkipLoop(Tail(source), skipped + 1, samples_to_skip)
    ELSE [skipped |-> skipped, rest |-> source]

\* seek that does not clamp the target to the duration.
seek_unclamped(s, x, f, dev, t) ==
    LET position_secs == IF x < 0 THEN 0 ELSE x
    IN IF s.current_file = None THEN Err(s, "NotLoaded")
       ELSE LET s1 == [s EXCEPT !.sink = None, !.start_time = None]
                dur == IF f.hasDur THEN f.dur ELSE 0
                target_secs == Max(position_secs, 0)
                target_frames == target_secs * f.rate
                samples_to_skip == target_frames * f.channels
                skipped == Min(samples_to_skip, f.samples)
            IN IF ~f.open THEN Err(s1, "Io")
               ELSE IF ~f.decodes THEN Err(s1, "Decode")
               ELSE IF ~dev THEN Err(s1, "Device")
               ELSE Ok([s1 EXCEPT !.sink = Some(NewSink(f, skipped)), !.duration = dur, !.start_time = Some(t - target_secs)])

\* seek that stops the current playback only once the new sink exists.
seek_stops_late(s, x, f, dev, t) ==
    LET position_secs == IF x < 0 THEN 0 ELSE x
    IN IF s.current_file = None THEN Err(s, "NotLoaded")
       ELSE LET s1 == [s EXCEPT !.sink = None, !.start_time = None]
                dur == IF f.hasDur THEN f.dur ELSE 0
                target_secs == Max(Min(position_secs, dur), 0)
                target_frames == target_secs * f.rate
                samples_to_skip == target_frames * f.channels
                skipped == Min(samples_to_skip, f.samples)
            IN IF ~f.open THEN Err(s, "Io")
               ELSE IF ~f.decodes THEN Err(s, "Decode")
               ELSE IF ~dev THEN Err(s, "Device")
               ELSE Ok([s1 EXCEPT !.sink = Some(NewSink(f, skipped)), !.duration = dur, !.start_time = Some(t - target_secs)])

\* seek that counts frames where it should count samples.
seek_skips_frames(s, x, f, dev, t) ==
    LET position_secs == IF x < 0 THEN 0 ELSE x
    IN IF s.current_file = None THEN Err(s, "NotLoaded")
       ELSE LET s1 == [s EXCEPT !.sink = None, !.start_time = None]
                dur == IF f.hasDur THEN f.dur ELSE 0
                target_secs == Max(Min(position_secs, dur), 0)
                target_frames == target_secs * f.rate
                skipped == SkipLoop(Decode(f), 0, target_frames).skipped
            IN IF ~f.open THEN Err(s1, "Io")
               ELSE IF ~f.decodes THEN Err(s1, "Decode")
               ELSE IF ~dev THEN Err(s1, "Device")
               ELSE Ok([s1 EXCEPT !.sink = Some(NewSink(f, skipped)), !.duration = dur, !.start_time = Some(t - target_secs)])

\* f is the file at the current path as this call's open sees it.
seek(s, x, f, dev, t) ==
    LET position_secs == IF x < 0 THEN 0 ELSE x
    IN IF s.current_file = None THEN Err(s, "NotLoaded")
       ELSE LET s1 == stop(s).st
                dur == IF f.hasDur THEN f.dur ELSE 0
                target_secs == Max(Min(position_secs, dur), 0)
                target_frames == target_secs * f.rate
                samples_to_skip == target_frames * f.channels
                skipped == SkipLoop(Decode(f), 0, samples_to_skip).skipped
            IN IF ~f.open THEN Err(s1, "Io")
               ELSE IF ~f.decodes THEN Err(s1, "Decode")
               ELSE IF ~dev THEN Err(s1, "Device")
               ELSE Ok([s1 EXCEPT !.sink = Some(NewSink(f, skipped)), !.duration = dur, !.start_time = Some(t - target_secs)])

\* play that sets the anchor but does not resume the sink.
play_no_resume(s, t) ==
    IF s.sink # None THEN Ok([s EXCEPT !.start_time = Some(t)]) ELSE Err(s, "NotLoaded")

play(s, t) ==
    IF s.sink # None
    THEN Ok([s EXCEPT !.sink = Some([Unwrap(s.sink) EXCEPT !.paused = FALSE]), !.start_time = Some(t)])
    ELSE Err(s, "NotLoaded")

\* pause that drops the anchor.
pause_clears_anchor(s) ==
    IF s.sink # None
    THEN Ok([s EXCEPT !.sink = Some([Unwrap(s.sink) EXCEPT !.paused = TRUE]), !.start_time = None])
    ELSE Err(s, "NotLoaded")

pause(s) ==
    IF s.sink # None
    THEN Ok([s EXCEPT !.sink = Some([Unwrap(s.sink) EXCEPT !.paused = TRUE])])
    ELSE Err(s, "NotLoaded")

\* set_volume that accepts the call when there is no sink.
set_volume_without_sink(s, v) ==
    IF s.sink # None
    THEN Ok([s EXCEPT !.sink = Some([Unwrap(s.sink) EXCEPT !.volume = Min(Max(v, 0), 1)])])
    ELSE Ok(s)

set_volume(s, v) ==
    LET volume == Min(Max(v, 0), 1)
    IN IF s.sink # None
       THEN Ok([s EXCEPT !.sink = Some([Unwrap(s.sink) EXCEPT !.volume = volume])])
       ELSE Err(s, "NotLoaded")

get_duration(s) == s.duration

get_position(s, t) == IF s.start_time # None THEN t - Unwrap(s.start_time) ELSE 0

is_playing(s) == IF s.sink # None THEN ~Unwrap(s.sink).paused /\ Unwrap(s.sink).len > 0 ELSE FALSE

is_paused(s) == IF s.sink # None THEN Unwrap(s.sink).paused ELSE FALSE

\* ---------------------------------------------------------------- actions
Call(op, r) == [op |-> op, res |-> r.res, ret |-> r.ret, flag |-> r.flag]

Install(r) ==
    /\ sink' = r.st.sink
    /\ live' = IF r.st.sink = None THEN 0 ELSE 1
    /\ current_file' = r.st.current_file
    /\ duration' = r.st.duration
    /\ start_time' = r.st.start_time

Failed(r) == r.res \in {"Io", "Decode", "Device"}

\* A call returned: record it.
Returned(op, arg, r) ==
    /\ Install(r)
    /\ UNCHANGED <<wave, stepwise>>
    /\ last' = Call(op, r)
    /\ pre' = [sink |-> sink # None, anchor |-> start_time # None, paused |-> is_paused(St)]
    /\ again' = (op = "stop" /\ last.op = "stop")
    /\ sinceOp' = 0
    /\ seekArg' = IF op = "seek" /\ r.res = "ok" THEN Some(arg)
                  ELSE IF op = "play" /\ last.op = "seek" /\ last.res = "ok" THEN seekArg
                  ELSE None
    /\ afterFailure' = IF op \in {"load_file", "seek"} /\ Failed(r) THEN "yes"
                       ELSE IF op = "load_file" /\ r.res = "ok" THEN "no"
                       ELSE IF op = "seek" /\ r.res = "ok" /\ afterFailure # "no" THEN "sought"
                       ELSE afterFailure

\* The callers of one AudioPlayer, and its mutexes.  lib.rs starts no thread,
\* load_file and seek take &mut self, and every call runs to completion on the
\* thread that makes it: the program makes its calls one after another
\* (SpecInTurn).  Calls that overlap (SpecCalls) are wider than the program;
\* they are the several threads that the claim of no deadlock speaks of, and
\* only what holds of every interleaving is concluded from them.
Threads == {"a", "b"}
NoThread == "none"
Locks == {"stream_handle", "sink", "current_file", "duration", "start_time"}

\* A thread that is in no call.
Idle ==
    [op |-> "idle", i |-> 0, path |-> "", arg |-> 0, f |-> Missing, dur |-> 0, target |-> 0, skipped |-> 0, made |-> FALSE]

\* No call is in progress.
Quiet ==
    /\ threads = [t \in Threads |-> Idle]
    /\ held = [l \in Locks |-> NoThread]

\* No get_waveform call is running.
WaveIdle ==
    [pc |-> "idle", n |-> 0, file |-> <<>>, buckets |-> 0, total_frames |-> 0, sample_index |-> 0,
     bucket_samples |-> <<>>, assigned |-> <<>>, peaks |-> <<>>, max_peak |-> None, duration_ms |-> 0, res |-> "none"]

\* The controller as AudioPlayer::new leaves it.
InitPlayer ==
    /\ sink = None
    /\ current_file = None
    /\ duration = 0
    /\ start_time = None
    /\ now = 0
    /\ last = [op |-> "new", res |-> "ok", ret |-> 0, flag |-> FALSE]
    /\ pre = [sink |-> FALSE, anchor |-> FALSE, paused |-> FALSE]
    /\ again = FALSE
    /\ sinceOp = 0
    /\ seekArg = None
    /\ afterFailure = "no"
    /\ live = 0

Init == InitPlayer /\ wave = WaveIdle /\ Quiet

\* A draw the call never consults is fixed, so that each outcome is drawn once:
\* load_file reaches Sink::try_new only when the first decode succeeded, and the
\* reopen only when the sink was created.
LoadDraws(f1, dev, f2) ==
    /\ (~(f1.open /\ f1.decodes)) => (dev /\ f2 = f1)
    /\ (~dev) => (f2 = f1)

\* seek opens the file only when a path is stored, and reaches Sink::try_new
\* only when the decode succeeded.
SeekDraws(f, dev) ==
    /\ (current_file = None) => (f = Missing)
    /\ (~(f.open /\ f.decodes)) => dev

LoadFile ==
    \E p \in Paths, f1 \in Files, f2 \in Files, dev \in BOOLEAN :
        /\ LoadDraws(f1, dev, f2)
        /\ Returned("load_file", p, load_file(St, p, f1, f2, dev))
        /\ UNCHANGED now

Seek ==
    \E x \in Positions, f \in Files, dev \in BOOLEAN :
        /\ SeekDraws(f, dev)
        /\ Returned("seek", x, seek(St, x, f, dev, now))
        /\ UNCHANGED now

Play ==
    /\ Returned("play", 0, play(St, now))
    /\ UNCHANGED now

Pause ==
    /\ Returned("pause", 0, pause(St))
    /\ UNCHANGED now

Stop ==
    /\ Returned("stop", 0, stop(St))
    /\ UNCHANGED now

SetVolume ==
    \E v \in Volumes :
        /\ Returned("set_volume", v, set_volume(St, v))
        /\ UNCHANGED now

\* The queries return a value and leave the controller as it is.
GetDuration ==
    /\ Returned("get_duration", 0, [st |-> St, res |-> "ok", ret |-> get_duration(St), flag |-> FALSE])
    /\ UNCHANGED now

GetPosition ==
    /\ Returned("get_position", 0, [st |-> St, res |-> "ok", ret |-> get_position(St, now), flag |-> FALSE])
    /\ UNCHANGED now

IsPlaying ==
    /\ Returned("is_playing", 0, [st |-> St, res |-> "ok", ret |-> 0, flag |-> is_playing(St)])
    /\ UNCHANGED now

IsPaused ==
    /\ Returned("is_paused", 0, [st |-> St, res |-> "ok", ret |-> 0, flag |-> is_paused(St)])
    /\ UNCHANGED now

\* One tick of wall-clock time: the clock advances and the device renders.
Tick ==
    /\ now < MaxTime
    /\ now' = now + 1
    /\ sinceOp' = sinceOp + 1
    /\ sink' = Render(sink)
    /\ UNCHANGED <<current_file, duration, start_time, last, pre, again, seekArg, afterFailure, wave, stepwise, live>>

Next ==
    \/ LoadFile
    \/ Seek
    \/ Play
    \/ Pause
    \/ Stop
    \/ SetVolume
    \/ GetDuration
    \/ GetPosition
    \/ IsPlaying
    \/ IsPaused
    \/ Tick

Spec == Init /\ [][Next]_vars

\* ------------------------------------------------------------ get_waveform
\* get_waveform shares nothing with the controller.  Samples are the decoder's
\* i16 values; a reported duration is counted in half ticks so that
\* duration * sample_rate need not be whole.
MinBuckets == 8
MaxBuckets == 4096
I16Max == 32767
LogDivisor == 10

SampleValues == {0, 1}
RECURSIVE SeqsUpTo(_)
SeqsUpTo(k) ==
    IF k = 0 THEN {<<>>}
    ELSE LET shorter == SeqsUpTo(k - 1)
         IN shorter \cup {Append(q, v) : q \in {r \in shorter : Len(r) = k - 1}, v \in SampleValues}

WaveMissing == [open |-> FALSE, decodes |-> FALSE, hasDur |-> FALSE, durHalves |-> 0, rate |-> 0, channels |-> 0, data |-> <<>>]
WaveCorrupt == [open |-> TRUE, decodes |-> FALSE, hasDur |-> FALSE, durHalves |-> 0, rate |-> 0, channels |-> 0, data |-> <<>>]
WaveFiles ==
    {WaveMissing, WaveCorrupt} \cup
    {[open |-> TRUE, decodes |-> TRUE, hasDur |-> d > 0, durHalves |-> d, rate |-> r, channels |-> c, data |-> q] :
        d \in 0 .. MaxDurHalves, r \in 1 .. 2, c \in 1 .. 2, q \in SeqsUpTo(MaxSamples)}

\* The bucket counts a caller asks for: below the lower limit, at it, between
\* the limits and above the upper one.
Requests == {0, MinBuckets - 1, MinBuckets, MinBuckets + 1, MaxBuckets + 1}

\* buckets.max(8).min(4096) without the upper limit
ClampBuckets_no_max(n) == Max(n, MinBuckets)

\* buckets.max(8).min(4096)
ClampBuckets(n) == Min(Max(n, MinBuckets), MaxBuckets)

\* f64::round of a non-negative number of halves: half-way cases round up.
RoundHalves(h) == (h + 1) \div 2

\* (duration_secs.max(0.0) * sample_rate as f64).round().max(1.0) as u64
TotalFrames(f) == Max(RoundHalves(Max(IF f.hasDur THEN f.durHalves ELSE 0, 0) * f.rate), 1)

\* the bucket of a sample, taking the sample's position for its frame
BucketIndex_per_sample(sample_index, channels, buckets, total_frames) ==
    Min((sample_index * buckets) \div total_frames, buckets - 1)

\* the bucket of the sample at (0-based) position sample_index
BucketIndex(sample_index, channels, buckets, total_frames) ==
    LET frame_index == sample_index \div Max(channels, 1)
    IN Min((frame_index * buckets) \div total_frames, buckets - 1)

\* The peaks are computed in f32.  An f32 is written [neg, m, x] for
\* (-1)^neg * m * 2^x with 2^23 <= m < 2^24, or m = 0 for zero; every result
\* is the nearest such number, the one with even m when two are as near.  No
\* value of get_waveform leaves the normal range, and the sign of a zero is
\* not kept.
F32 == [neg : BOOLEAN, m : Nat, x : Int]

F32Zero == [neg |-> FALSE, m |-> 0, x |-> 0]

\* 0.0 / 0.0, which is not a number: written with m = 0 and x = 1, as no
\* number is
NaN == [neg |-> FALSE, m |-> 0, x |-> 1]

\* the f32 nearest to m + guard / 2 (and a little more if sticky), times 2^x
RoundEven(neg, m, guard, sticky, x) ==
    IF ~(guard = 1 /\ (sticky \/ (m % 2 = 1))) THEN [neg |-> neg, m |-> m, x |-> x]
    ELSE IF m + 1 = 2 ^ 24 THEN [neg |-> neg, m |-> 2 ^ 23, x |-> x + 1]
    ELSE [neg |-> neg, m |-> m + 1, x |-> x]

\* the f32 nearest to n * 2^x, or to a number between n and n + 1 times 2^x
\* if sticky, which needs n >= 2^24
RECURSIVE Pack(_, _, _, _)
Pack(neg, n, sticky, x) ==
    IF n = 0 THEN F32Zero
    ELSE IF n < 2 ^ 23 THEN Pack(neg, 2 * n, sticky, x - 1)
    ELSE IF n < 2 ^ 24 THEN [neg |-> neg, m |-> n, x |-> x]
    ELSE IF n < 2 ^ 25 THEN RoundEven(neg, n \div 2, n % 2, sticky, x + 1)
    ELSE Pack(neg, n \div 2, sticky \/ (n % 2 = 1), x + 1)

\* n as f32
FromInt(n) == Pack(n < 0, IF n < 0 THEN 0 - n ELSE n, FALSE, 0)

One == FromInt(1)

Abs(a) == [a EXCEPT !.neg = FALSE]

\* a + b
Add(a, b) ==
    IF a.m = 0 THEN b
    ELSE IF b.m = 0 THEN a
    ELSE LET swap == b.x > a.x \/ (b.x = a.x /\ b.m > a.m)
             big == IF swap THEN b ELSE a
             small == IF swap THEN a ELSE b
             d == big.x - small.x
             part == IF d > 27 THEN 0 ELSE (small.m * 8) \div (2 ^ d)
             sticky == IF d > 27 THEN TRUE ELSE (small.m * 8) % (2 ^ d) # 0
             n == IF big.neg = small.neg THEN big.m * 8 + part
                  ELSE big.m * 8 - part - (IF sticky THEN 1 ELSE 0)
         IN Pack(big.neg, n, sticky, big.x - 3)

\* a * b; the 48 bits of the product are put together from halves of 12 bits
Mul(a, b) ==
    IF a.m = 0 \/ b.m = 0 THEN F32Zero
    ELSE LET w == 2 ^ 12
             low == (a.m % w) * (b.m % w)
             mid == (a.m \div w) * (b.m % w) + (a.m % w) * (b.m \div w) + (low \div w)
             high == (a.m \div w) * (b.m \div w) + (mid \div w)
             rest == (mid % w) * w + (low % w)
         IN Pack(a.neg # b.neg, high * 4 + (rest \div (2 ^ 22)), rest % (2 ^ 22) # 0, a.x + b.x + 22)

\* <<quotient, remainder>> of n * 2^k by d, one bit at a time
RECURSIVE LongDiv(_, _, _)
LongDiv(n, d, k) ==
    IF k = 0 THEN <<n \div d, n % d>>
    ELSE LET p == LongDiv(n, d, k - 1)
         IN <<2 * p[1] + ((2 * p[2]) \div d), (2 * p[2]) % d>>

\* a / b, for b # 0 or a = 0
Div(a, b) ==
    IF a.m = 0 THEN (IF b.m = 0 THEN NaN ELSE F32Zero)
    ELSE LET k == IF a.m >= b.m THEN 24 ELSE 25
             q == LongDiv(a.m, b.m, k)
         IN Pack(a.neg # b.neg, q[1], q[2] # 0, a.x - b.x - k)

\* <<root, remainder>> of the square root of the first p pairs of bits of
\* m * 2^j, read as a number of 50 bits
RECURSIVE Root(_, _, _)
Root(m, j, p) ==
    IF p = 0 THEN <<0, 0>>
    ELSE LET r == Root(m, j, p - 1)
             sh == 50 - 2 * p - j
             pair == IF sh >= 0 THEN (m \div (2 ^ sh)) % 4
                     ELSE IF sh = 0 - 1 THEN (m % 2) * 2
                     ELSE 0
             rem == 4 * r[2] + pair
             trial == 4 * r[1] + 1
         IN IF rem >= trial THEN <<2 * r[1] + 1, rem - trial>> ELSE <<2 * r[1], rem>>

\* a.sqrt(), for a >= 0
Sqrt(a) ==
    IF a.m = 0 THEN F32Zero
    ELSE LET j == IF (a.x % 2) = 0 THEN 26 ELSE 25
             r == Root(a.m, j, 25)
         IN Pack(FALSE, r[1], r[2] # 0, (a.x - j) \div 2)

\* samples.chunks(channels): consecutive pieces of `channels` samples, the last
\* one possibly shorter.  (\o <<>> keeps the pieces a sequence, which is indexed
\* in one step however long it is.)
Chunks(q, k) ==
    [i \in 1 .. ((Len(q) + k - 1) \div k) |-> SubSeq(q, (i - 1) * k + 1, Min(i * k, Len(q)))] \o <<>>

\* sample as f32 / i16::MAX as f32: a bucket keeps its samples as the decoder
\* gave them, and their f32 value is taken here
Value(sample) == Div(FromInt(sample), FromInt(I16Max))

\* chunk.iter().sum::<f32>(): sum[acc, lo, hi] is acc after the values of
\* chunk[lo .. hi] are added to it one after the other; splitting the range in
\* halves keeps that order
SumOf(chunk) ==
    LET sum[acc \in F32, lo \in Nat, hi \in Nat] ==
            IF lo > hi THEN acc
            ELSE IF lo = hi THEN Add(acc, Value(chunk[lo]))
            ELSE sum[sum[acc, lo, (lo + hi) \div 2], ((lo + hi) \div 2) + 1, hi]
    IN sum[F32Zero, 1, Len(chunk)]

\* mono_value: the mean of a chunk over the channel count, or its first sample
MonoValue(chunk, channels) ==
    IF channels > 1 THEN Div(SumOf(chunk), FromInt(channels))
    ELSE Value(chunk[1])

\* sum_sq += mono_value * mono_value for every chunk, one after the other, in
\* halves as in SumOf
SumSq(chunks, channels) ==
    LET sum_sq[acc \in F32, lo \in Nat, hi \in Nat] ==
            IF lo > hi THEN acc
            ELSE IF lo = hi THEN LET mono_value == MonoValue(chunks[lo], channels)
                                 IN Add(acc, Mul(mono_value, mono_value))
            ELSE sum_sq[sum_sq[acc, lo, (lo + hi) \div 2], ((lo + hi) \div 2) + 1, hi]
    IN sum_sq[F32Zero, 1, Len(chunks)]

\* rms of the samples of a bucket
Rms(samples, channels) ==
    LET chunks == Chunks(samples, channels)
        count == Len(chunks)
    IN IF count > 0 THEN Sqrt(Div(SumSq(chunks, channels), FromInt(count)))
       ELSE F32Zero

\* (s).log2() needs log2 to more bits than a machine word: a natural number
\* is kept as limbs of 12 bits, the lowest first.
Limb == 2 ^ 12

RECURSIVE Limbs(_)
Limbs(n) == IF n < Limb THEN <<n>> ELSE <<n % Limb>> \o Limbs(n \div Limb)

\* a * m + carry, for m < 2^18
RECURSIVE Scale(_, _, _)
Scale(a, m, carry) ==
    IF a = <<>> THEN (IF carry = 0 THEN <<>> ELSE Limbs(carry))
    ELSE LET v == Head(a) * m + carry
         IN <<v % Limb>> \o Scale(Tail(a), m, v \div Limb)

\* a + b + carry
RECURSIVE Plus(_, _, _)
Plus(a, b, carry) ==
    IF a = <<>> /\ b = <<>> THEN (IF carry = 0 THEN <<>> ELSE <<carry>>)
    ELSE LET v == (IF a = <<>> THEN 0 ELSE Head(a)) + (IF b = <<>> THEN 0 ELSE Head(b)) + carry
         IN <<v % Limb>> \o Plus(IF a = <<>> THEN a ELSE Tail(a), IF b = <<>> THEN b ELSE Tail(b), v \div Limb)

\* a * b
RECURSIVE Times(_, _)
Times(a, b) ==
    IF b = <<>> THEN <<>>
    ELSE Plus(Scale(a, Head(b), 0), <<0>> \o Times(a, Tail(b)), 0)

\* <<a \div d, a % d>>, for d < 2^18
RECURSIVE Over(_, _)
Over(a, d) ==
    IF a = <<>> THEN <<<<>>, 0>>
    ELSE LET hi == Over(Tail(a), d)
             v == hi[2] * Limb + Head(a)
         IN <<<<v \div d>> \o hi[1], v % d>>

\* a without its lowest n limbs
Drop(a, n) == IF Len(a) <= n THEN <<>> ELSE SubSeq(a, n + 1, Len(a))

\* a without the zero limbs at its top
RECURSIVE Strip(_)
Strip(a) == IF a = <<>> \/ a[Len(a)] # 0 THEN a ELSE Strip(SubSeq(a, 1, Len(a) - 1))

\* the number of bits of n
RECURSIVE Width(_)
Width(n) == IF n = 0 THEN 0 ELSE 1 + Width(n \div 2)

\* A fraction is kept to 60 binary places, as the limbs of its multiple by
\* 2^60, rounded down.
FracLimbs == 5
FixOne == <<0, 0, 0, 0, 0, 1>>
FixTimes(a, b) == Drop(Times(a, b), FracLimbs)

\* 2 / ln 2 = 2.885390081777926814...
TwoOverLn2 == <<3118, 95, 2647, 2284, 3626, 2>>

\* n / d to `count` limbs of places, for n < d < 2^25, the quotient of one
\* limb known before the next is asked for
Frac(n, d, count) ==
    LET digits[rest \in Nat, left \in Nat] ==
            IF left = 0 THEN <<>>
            ELSE LET p == LongDiv(rest, d, 12) IN digits[p[2], left - 1] \o <<p[1]>>
    IN digits[n, count]

\* the k with num * 2^k < den <= num * 2^(k + 1), for 0 < num < den
RECURSIVE Lead(_, _)
Lead(num, den) == IF 2 * num >= den THEN 0 ELSE 1 + Lead(2 * num, den)

\* 1 + w / 3 + w^2 / 5 + ... + w^n / (2n + 1), from the last term inwards
Series(w, n) ==
    LET horner[acc \in Seq(Nat), j \in Int] ==
            IF j < 0 THEN acc
            ELSE horner[Plus(Over(FixOne, 2 * j + 1)[1], FixTimes(w, acc), 0), j - 1]
    IN horner[Over(FixOne, 2 * n + 1)[1], n - 1]

\* The two f32 next to log2(s), the one below first, for s >= 1.0; both are
\* log2(s) itself when s is a power of two, the only case in which log2(s) is
\* an f32.  With s = m * 2^(e - 23) and t = (m - 2^23) / (m + 2^23),
\* log2(s) = e + (2 / ln 2) * t * (1 + t^2 / 3 + t^4 / 5 + ...); t is kept as
\* u = t * 2^k with 1/2 <= u < 1 and the sum ends once t^(2n) < 2^-60.
Log2Bounds(s) ==
    IF s.m = 2 ^ 23 THEN <<FromInt(s.x + 23), FromInt(s.x + 23)>>
    ELSE LET e == s.x + 23
             num == s.m - 2 ^ 23
             den == s.m + 2 ^ 23
             k == Lead(num, den)
             u == Frac(num * (2 ^ k), den, FracLimbs)
             squared == FixTimes(u, u)
             w == Over(Drop(squared, (2 * k) \div 12), 2 ^ ((2 * k) % 12))[1]
             sum == Series(w, (60 \div (2 * k)) + 1)
             part == FixTimes(FixTimes(TwoOverLn2, u), sum)
             all == Strip(Plus(part, <<0, 0, 0, 0, 0>> \o Scale(Limbs(2 ^ k), e, 0), 0))
             n == Len(all)
             b == Width(all[n])
             m == (all[n] * Limb + all[n - 1]) * (2 ^ (12 - b)) + (all[n - 2] \div (2 ^ b))
             x == 12 * (n - 3) + b - (12 * FracLimbs + k)
         IN <<[neg |-> FALSE, m |-> m, x |-> x], Pack(FALSE, m + 1, FALSE, x)>>

\* s.log2(), for s >= 1.0.  f32::log2 is the log2f of the platform the crate
\* is built for, and which of the two f32 next to log2(s) it returns is not
\* fixed by the language: it is the upper one for the s in `up`, the lower one
\* for the others, and log2(s) itself when that is an f32.
Log2(s, up) == Log2Bounds(s)[IF s \in up THEN 2 ELSE 1]

\* a > b, for a, b >= 0
Greater(a, b) == a.m # 0 /\ (b.m = 0 \/ a.x > b.x \/ (a.x = b.x /\ a.m > b.m))

\* rms.abs() + 1.0 for the samples of a bucket
BucketS(samples, channels) == Add(Abs(Rms(samples, channels)), One)

\* the s of the buckets whose log2 has two neighbours
Inexact(bucket_samples, channels) ==
    LET s == {BucketS(bucket_samples[i], channels) : i \in {j \in 1 .. Len(bucket_samples) : bucket_samples[j] # <<>>}}
    IN {v \in s : v.m # 2 ^ 23}

\* the peak of a bucket: 0.0 if it is empty, else
\* ((rms.abs() + 1.0).log2() / 10.0).min(1.0)
BucketPeak(samples, channels, up) ==
    IF samples = <<>> THEN F32Zero
    ELSE LET peak == Div(Log2(BucketS(samples, channels), up), FromInt(LogDivisor))
         IN IF Greater(peak, One) THEN One ELSE peak

\* p < 1.0, for p >= 0
BelowOne(p) == Greater(One, p)

\* max_peak is a fold from 0.0 that replaces acc by v when v > acc; it is
\* computed here over peaks[lo .. hi] by halves, the left half staying when
\* the right one is not greater.
RECURSIVE Greatest(_, _, _)
Greatest(peaks, lo, hi) ==
    IF lo = hi THEN peaks[lo]
    ELSE LET mid == (lo + hi) \div 2
             left == Greatest(peaks, lo, mid)
             right == Greatest(peaks, mid + 1, hi)
         IN IF Greater(right, left) THEN right ELSE left

MaxPeak(peaks) ==
    IF peaks = <<>> THEN F32Zero
    ELSE LET greatest == Greatest(peaks, 1, Len(peaks))
         IN IF Greater(greatest, F32Zero) THEN greatest ELSE F32Zero

\* the division by max_peak without the test that it is positive
Normalize_unguarded(peaks) ==
    LET max_peak == MaxPeak(peaks)
    IN IF BelowOne(max_peak)
       THEN [i \in 1 .. Len(peaks) |-> Div(peaks[i], max_peak)]
       ELSE peaks

\* *p /= max_peak for every peak when 0 < max_peak < 1
Normalize(peaks) ==
    LET max_peak == MaxPeak(peaks)
    IN IF Greater(max_peak, F32Zero) /\ BelowOne(max_peak)
       THEN [i \in 1 .. Len(peaks) |-> Div(peaks[i], max_peak)]
       ELSE peaks

\* open the file, decode its header, allocate the buckets
WOpen ==
    /\ wave.pc = "start"
    /\ LET f == wave.file
           buckets == ClampBuckets(wave.n)
       IN wave' = IF ~f.open THEN [wave EXCEPT !.pc = "done", !.res = "Io", !.buckets = buckets]
                  ELSE IF ~f.decodes THEN [wave EXCEPT !.pc = "done", !.res = "Decode", !.buckets = buckets]
                  ELSE [wave EXCEPT !.pc = "loop",
                                    !.buckets = buckets,
                                    !.duration_ms = (IF f.hasDur THEN f.durHalves ELSE 0) * 500,
                                    !.total_frames = TotalFrames(f),
                                    !.bucket_samples = [i \in 1 .. buckets |-> <<>>],
                                    !.sample_index = 0]
    /\ UNCHANGED <<sink, current_file, duration, start_time, now, history, stepwise, live>>

\* one turn of the sample loop
WSample ==
    /\ wave.pc = "loop"
    /\ wave.sample_index < Len(wave.file.data)
    /\ LET sample == wave.file.data[wave.sample_index + 1]
           bucket_index == BucketIndex(wave.sample_index, wave.file.channels, wave.buckets, wave.total_frames)
       IN wave' = [wave EXCEPT !.bucket_samples[bucket_index + 1] = Append(@, sample),
                               !.assigned = Append(@, bucket_index),
                               !.sample_index = @ + 1]
    /\ UNCHANGED <<sink, current_file, duration, start_time, now, history, stepwise, live>>

\* the source has run out: one peak per bucket
WPeaks ==
    /\ wave.pc = "loop"
    /\ wave.sample_index = Len(wave.file.data)
    /\ \E up \in SUBSET Inexact(wave.bucket_samples, wave.file.channels) :
          wave' = [wave EXCEPT !.pc = "peaks",
                               !.peaks = [i \in 1 .. wave.buckets |-> BucketPeak(wave.bucket_samples[i], wave.file.channels, up)]]
    /\ UNCHANGED <<sink, current_file, duration, start_time, now, history, stepwise, live>>

\* normalise and return
WReturn ==
    /\ wave.pc = "peaks"
    /\ wave' = [wave EXCEPT !.pc = "done", !.res = "ok",
                            !.max_peak = Some(MaxPeak(wave.peaks)),
                            !.peaks = Normalize(wave.peaks)]
    /\ UNCHANGED <<sink, current_file, duration, start_time, now, history, stepwise, live>>

InitWave ==
    /\ InitPlayer
    /\ Quiet
    /\ \E n \in Requests, f \in WaveFiles : wave = [WaveIdle EXCEPT !.pc = "start", !.n = n, !.file = f]

NextWave ==
    \/ WOpen
    \/ WSample
    \/ WPeaks
    \/ WReturn

SpecWave == InitWave /\ [][NextWave]_vars

\* ------------------------------------------------------------ calls, step by step
\* Every field sits behind its own mutex, so a call is a run of steps, each
\* of which locks one mutex, and calls that overlap interleave between
\* steps.  A step that touches no lock (opening and decoding a file) is a step
\* of its own.  The clock stands still while the calls run.

\* the steps of stop, in program order
StopSteps == <<"take", "clear">>

\* load_file that does not stop the current playback first
LoadSteps_no_stop ==
    <<"open", "create", "reopen", "store_sink", "store_path", "store_duration", "clear">>

\* the steps of load_file
LoadSteps ==
    StopSteps \o <<"open", "create", "reopen", "store_sink", "store_path", "store_duration", "clear">>

\* the steps of seek
SeekSteps ==
    <<"path">> \o StopSteps \o <<"open", "create", "store_sink", "store_duration", "store_anchor">>

\* the steps of play
PlaySteps == <<"resume", "anchor">>

\* the calls that are one step under the one lock
Single == {"pause", "set_volume", "get_duration", "get_position", "is_playing", "is_paused"}
Ops == {"load_file", "seek", "play", "stop"} \cup Single

Steps(op) ==
    CASE op = "stop" -> StopSteps
      [] op = "load_file" -> LoadSteps
      [] op = "seek" -> SeekSteps
      [] op = "play" -> PlaySteps
      [] OTHER -> <<op>>

\* the mutex a step locks; none for a step that works on locals only
LockOf(step) ==
    CASE step \in {"take", "resume", "store_sink", "pause", "set_volume", "is_playing", "is_paused"} -> "sink"
      [] step \in {"clear", "anchor", "store_anchor", "get_position"} -> "start_time"
      [] step \in {"path", "store_path"} -> "current_file"
      [] step \in {"store_duration", "get_duration"} -> "duration"
      [] step = "create" -> "stream_handle"
      [] OTHER -> NoThread

\* seek keeping the guard of current_file in a variable while it clones the path
Kept_path_guard(step) == step \in {"take", "resume", "create", "path"}

\* The guard a step takes is bound to a variable and outlives the step; every
\* other guard is a temporary that is dropped with its statement.
Kept(step) == step \in {"take", "resume", "create"}

\* the guards that leave scope after a step: the sink guard of stop and of play
Closes(step) == IF step \in {"clear", "anchor"} THEN {"sink"} ELSE {}

Current(t) == Steps(threads[t].op)[threads[t].i]
At(t, step) == threads[t].op # "idle" /\ Current(t) = step
Holding(t) == {l \in Locks : held[l] = t}
Needs(t) == IF threads[t].op = "idle" THEN NoThread ELSE LockOf(Current(t))

\* t's next step does not have to wait
CanTake(t) == Needs(t) = NoThread \/ held[Needs(t)] = NoThread

\* t has done its step and its locals are loc; the call returns if this was
\* its last step or the step returned early.  A returning call drops every
\* guard it still has.
After(t, loc, returns) ==
    LET step == Current(t)
        over == returns \/ threads[t].i = Len(Steps(threads[t].op))
    IN /\ threads' = [threads EXCEPT ![t] = IF over THEN Idle ELSE [loc EXCEPT !.i = @ + 1]]
       /\ held' = [l \in Locks |->
                     IF over THEN (IF held[l] = t THEN NoThread ELSE held[l])
                     ELSE IF l = LockOf(step) THEN (IF Kept(step) THEN t ELSE NoThread)
                     ELSE IF l \in Closes(step) /\ held[l] = t THEN NoThread
                     ELSE held[l]]

\* the argument seek (a position) and set_volume (a volume) are called with
Arguments == {1}

\* what an open can find while the calls run: no file, a.wav or b.wav
FilesSeen == {Missing, Song, Short}

\* thread t calls op
Begin(t) ==
    /\ threads[t] = Idle
    /\ \E op \in Ops, p \in Paths, x \in Arguments :
        /\ op # "load_file" => p = "a.wav"
        /\ op \notin {"seek", "set_volume"} => x = 1
        /\ threads' = [threads EXCEPT ![t] = [Idle EXCEPT !.op = op, !.i = 1,
                                                           !.arg = IF op \in {"seek", "set_volume"} THEN x ELSE 0,
                                                           !.path = IF op = "load_file" THEN p ELSE ""]]
    /\ UNCHANGED <<sink, current_file, duration, start_time, now, history, wave, held, live>>

\* stop: let mut sink = self.sink.lock(); if let Some(s) = sink.take() { s.stop(); }
TakeSink(t) ==
    /\ At(t, "take") /\ CanTake(t)
    /\ sink' = stop(St).st.sink
    /\ live' = IF sink # None THEN live - 1 ELSE live
    /\ After(t, threads[t], FALSE)
    /\ UNCHANGED <<current_file, duration, start_time, now, history, wave>>

\* *self.start_time.lock() = None, in stop and at the end of load_file
ClearAnchor(t) ==
    /\ At(t, "clear") /\ CanTake(t)
    /\ start_time' = None
    /\ After(t, threads[t], FALSE)
    /\ UNCHANGED <<sink, current_file, duration, now, history, wave, live>>

\* File::open and Decoder::new; seek also runs its skip loop
OpenFile(t) ==
    /\ At(t, "open")
    /\ \E f \in FilesSeen :
        LET dur == IF f.hasDur THEN f.dur ELSE 0
            target_secs == Max(Min(threads[t].arg, dur), 0)
            samples_to_skip == target_secs * f.rate * f.channels
            seeking == threads[t].op = "seek"
            loc == [threads[t] EXCEPT !.f = f, !.dur = dur,
                                      !.target = IF seeking THEN target_secs ELSE 0,
                                      !.skipped = IF seeking THEN SkipLoop(Decode(f), 0, samples_to_skip).skipped ELSE 0]
        IN After(t, loc, ~(f.open /\ f.decodes))
    /\ UNCHANGED <<sink, current_file, duration, start_time, now, history, wave, live>>

\* self.stream_handle.lock() and Sink::try_new
CreateSink(t) ==
    /\ At(t, "create") /\ CanTake(t)
    /\ \E dev \in BOOLEAN :
        /\ live' = IF dev THEN live + 1 ELSE live
        /\ After(t, [threads[t] EXCEPT !.made = dev], ~dev)
    /\ UNCHANGED <<sink, current_file, duration, start_time, now, history, wave>>

\* load_file opens and decodes the file again for the sink; on failure the new
\* sink is dropped with the call's locals
Reopen(t) ==
    /\ At(t, "reopen")
    /\ \E f2 \in FilesSeen :
        LET ok == f2.open /\ f2.decodes
        IN /\ live' = IF ok THEN live ELSE live - 1
           /\ After(t, [threads[t] EXCEPT !.f = f2], ~ok)
    /\ UNCHANGED <<sink, current_file, duration, start_time, now, history, wave>>

\* sink.append(source); *self.sink.lock() = Some(sink): the sink that was in the
\* field is dropped
StoreSink(t) ==
    /\ At(t, "store_sink") /\ CanTake(t)
    /\ sink' = Some(NewSink(threads[t].f, threads[t].skipped))
    /\ live' = IF sink # None THEN live - 1 ELSE live
    /\ After(t, [threads[t] EXCEPT !.made = FALSE], FALSE)
    /\ UNCHANGED <<current_file, duration, start_time, now, history, wave>>

\* *self.current_file.lock() = Some(file_path)
StorePath(t) ==
    /\ At(t, "store_path") /\ CanTake(t)
    /\ current_file' = Some(threads[t].path)
    /\ After(t, threads[t], FALSE)
    /\ UNCHANGED <<sink, duration, start_time, now, history, wave, live>>

\* *self.duration.lock() = duration
StoreDuration(t) ==
    /\ At(t, "store_duration") /\ CanTake(t)
    /\ duration' = threads[t].dur
    /\ After(t, threads[t], FALSE)
    /\ UNCHANGED <<sink, current_file, start_time, now, history, wave, live>>

\* seek: *self.start_time.lock() = Some(Instant::now() - target_secs)
StoreAnchor(t) ==
    /\ At(t, "store_anchor") /\ CanTake(t)
    /\ start_time' = Some(now - threads[t].target)
    /\ After(t, threads[t], FALSE)
    /\ UNCHANGED <<sink, current_file, duration, now, history, wave, live>>

\* seek: self.current_file.lock().clone()
ClonePath(t) ==
    /\ At(t, "path") /\ CanTake(t)
    /\ IF current_file = None THEN After(t, threads[t], TRUE)
       ELSE After(t, [threads[t] EXCEPT !.path = Unwrap(current_file)], FALSE)
    /\ UNCHANGED <<sink, current_file, duration, start_time, now, history, wave, live>>

\* play: self.sink.lock(); s.play()
Resume(t) ==
    /\ At(t, "resume") /\ CanTake(t)
    /\ sink' = play(St, now).st.sink
    /\ After(t, threads[t], sink = None)
    /\ UNCHANGED <<current_file, duration, start_time, now, history, wave, live>>

\* play: *self.start_time.lock() = Some(Instant::now())
SetAnchor(t) ==
    /\ At(t, "anchor") /\ CanTake(t)
    /\ start_time' = play(St, now).st.start_time
    /\ After(t, threads[t], FALSE)
    /\ UNCHANGED <<sink, current_file, duration, now, history, wave, live>>

PauseSink(t) ==
    /\ At(t, "pause") /\ CanTake(t)
    /\ sink' = pause(St).st.sink
    /\ After(t, threads[t], FALSE)
    /\ UNCHANGED <<current_file, duration, start_time, now, history, wave, live>>

VolumeOfSink(t) ==
    /\ At(t, "set_volume") /\ CanTake(t)
    /\ sink' = set_volume(St, threads[t].arg).st.sink
    /\ After(t, threads[t], FALSE)
    /\ UNCHANGED <<current_file, duration, start_time, now, history, wave, live>>

ReadDuration(t) ==
    /\ At(t, "get_duration") /\ CanTake(t)
    /\ After(t, threads[t], FALSE)
    /\ UNCHANGED <<sink, current_file, duration, start_time, now, history, wave, live>>

ReadPosition(t) ==
    /\ At(t, "get_position") /\ CanTake(t)
    /\ After(t, threads[t], FALSE)
    /\ UNCHANGED <<sink, current_file, duration, start_time, now, history, wave, live>>

\* is_playing and is_paused read the sink under its lock
ReadSink(t) ==
    /\ (At(t, "is_playing") \/ At(t, "is_paused")) /\ CanTake(t)
    /\ After(t, threads[t], FALSE)
    /\ UNCHANGED <<sink, current_file, duration, start_time, now, history, wave, live>>

\* a call in progress takes its next step
Run(t) ==
    \/ TakeSink(t)
    \/ ClearAnchor(t)
    \/ OpenFile(t)
    \/ CreateSink(t)
    \/ Reopen(t)
    \/ StoreSink(t)
    \/ StorePath(t)
    \/ StoreDuration(t)
    \/ StoreAnchor(t)
    \/ ClonePath(t)
    \/ Resume(t)
    \/ SetAnchor(t)
    \/ PauseSink(t)
    \/ VolumeOfSink(t)
    \/ ReadDuration(t)
    \/ ReadPosition(t)
    \/ ReadSink(t)

\* The calls start on a controller that has played a.wav for two ticks:
\* load_file("a.wav") and play() at tick 0, then two ticks of playback.
InitCalls ==
    /\ sink = Render(Render(Some(NewSink(Song, 0))))
    /\ current_file = Some("a.wav")
    /\ duration = 3
    /\ start_time = Some(0)
    /\ now = 2
    /\ last = [op |-> "play", res |-> "ok", ret |-> 0, flag |-> FALSE]
    /\ pre = [sink |-> TRUE, anchor |-> FALSE, paused |-> FALSE]
    /\ again = FALSE
    /\ sinceOp = 2
    /\ seekArg = None
    /\ afterFailure = "no"
    /\ live = 1
    /\ wave = WaveIdle
    /\ Quiet

\* calls that overlap, a step of either call at a time
NextCalls ==
    \E t \in Threads :
        \/ Begin(t)
        \/ Run(t)

SpecCalls == InitCalls /\ [][NextCalls]_vars

\* calls made one after another, by whichever thread: a call begins only when
\* no other call is in progress
BeginInTurn(t) ==
    /\ \A u \in Threads : threads[u] = Idle
    /\ Begin(t)

NextInTurn ==
    \E t \in Threads :
        \/ BeginInTurn(t)
        \/ Run(t)

SpecInTurn == InitCalls /\ [][NextInTurn]_vars

\* ------------------------------------------------------------------ claims
Clamp(x, lo, hi) == IF x < lo THEN lo ELSE IF x > hi THEN hi ELSE x
DecoderDuration(f) == IF f.hasDur THEN f.dur ELSE 0
Succeeded(op) == last.op = op /\ last.res = "ok"
FailedCall == last.op \in {"load_file", "seek"} /\ last.res \in {"Io", "Decode", "Device"}

\* C1: after a successful seek(x) followed by play() and t ticks with no other
\* call in between, get_position() is clamp(x, 0, total_duration) + t.
C1_SeekPlayPosition ==
    (Succeeded("play") /\ seekArg # None)
        => get_position(St, now) = Clamp(Unwrap(seekArg), 0, duration) + sinceOp

\* C2: a successful seek(x) clamps x to [0, total_duration], and get_position()
\* issued right after it, before any play, returns exactly the clamped value.
C2_SeekClampsPosition ==
    (Succeeded("seek") /\ sinceOp = 0)
        => /\ get_position(St, now) = Clamp(Unwrap(seekArg), 0, duration)
           /\ get_position(St, now) >= 0
           /\ get_position(St, now) <= get_duration(St)

\* a seek beyond the end of a file with a duration, issued after the clock has moved
C2_Witness ==
    /\ Succeeded("seek") /\ sinceOp = 0 /\ now > 0
    /\ duration > 0 /\ Unwrap(seekArg) > duration
    /\ get_position(St, now) = duration

\* C3: a successful load leaves the controller Loaded-Stopped: the new sink holds
\* the queued audio and is_playing() is false until play() is called.
C3_LoadLeavesStopped ==
    (Succeeded("load_file") /\ sinceOp = 0) => (sink # None /\ ~is_playing(St))

\* C4: a successful seek leaves the controller Loaded-Stopped: a new sink is
\* installed and is_playing() is false until play() is called.
C4_SeekLeavesStopped ==
    (Succeeded("seek") /\ sinceOp = 0) => (sink # None /\ ~is_playing(St))

\* C5: play() with nothing loaded fails with NotLoadedError; after a successful
\* load play() succeeds, is_playing() is true while audio remains queued and
\* is_paused() is false.
C5_PlayNeedsSink ==
    /\ last.op = "play" =>
        /\ (~pre.sink) => (last.res = "NotLoaded" /\ sink = None)
        /\ pre.sink => /\ last.res = "ok"
                       /\ sink # None
                       /\ ~is_paused(St)
                       /\ is_playing(St) <=> (Unwrap(sink).len > 0)
    /\ Succeeded("load_file") =>
        /\ play(St, now).res = "ok"
        /\ ~is_paused(play(St, now).st)
        /\ (sinceOp = 0) => is_playing(play(St, now).st)

\* play resumed a paused sink that still has audio queued
C5_Witness ==
    /\ Succeeded("play") /\ pre.paused
    /\ is_playing(St) /\ ~is_paused(St)

\* C6: after stop(), from any state, get_position() is 0 and is_playing() and
\* is_paused() are false; stop() never fails.
C6_StopResets ==
    last.op = "stop" =>
        /\ last.res = "ok"
        /\ get_position(St, now) = 0
        /\ ~is_playing(St)
        /\ ~is_paused(St)

\* stop found a sink and an anchor, and time has passed since
C6_Witness ==
    /\ last.op = "stop" /\ pre.sink /\ pre.anchor
    /\ sinceOp > 0 /\ current_file # None

\* C7: stop() is idempotent: from any reachable state, stop(); stop() gives the
\* same controller state, result and query results as a single stop().
C7_StopIdempotent ==
    LET r1 == stop(St)
        r2 == stop(r1.st)
    IN /\ r2 = r1
       /\ get_position(r2.st, now) = get_position(r1.st, now)
       /\ get_duration(r2.st) = get_duration(r1.st)
       /\ is_playing(r2.st) = is_playing(r1.st)
       /\ is_paused(r2.st) = is_paused(r1.st)
       /\ again => (last.res = "ok" /\ sink = None /\ start_time = None /\ ~pre.sink /\ ~pre.anchor)

\* stop was called twice in a row on a controller that has a file
C7_Witness == again /\ current_file # None /\ duration > 0

\* C8: after a successful load, get_duration() is the duration the decoder
\* reports for the file (0 when it reports none), which load also returned, and
\* play_anchor is None, so get_position() is 0 whatever the previous session was.
C8_LoadDuration ==
    /\ Succeeded("load_file") =>
        /\ get_duration(St) = last.ret
        /\ start_time = None
        /\ get_position(St, now) = 0
    /\ \A p \in Paths, f1 \in Files, f2 \in Files, dev \in BOOLEAN :
        LET r == load_file(St, p, f1, f2, dev)
        IN r.res = "ok" =>
            /\ get_duration(r.st) = DecoderDuration(f1)
            /\ r.ret = DecoderDuration(f1)
            /\ get_position(r.st, now) = 0

\* a load that replaced a session with a sink and an anchor, some time ago
C8_Witness ==
    /\ Succeeded("load_file") /\ pre.sink /\ pre.anchor
    /\ duration > 0 /\ sinceOp > 0

\* C9: when load or seek fails at file open, decode or sink creation, the
\* previous sink is gone and play_anchor is None: is_playing() and is_paused()
\* are false, get_position() is 0 and play() fails with NotLoadedError.
C9_FailureTearsDown ==
    FailedCall =>
        /\ sink = None
        /\ start_time = None
        /\ ~is_playing(St)
        /\ ~is_paused(St)
        /\ get_position(St, now) = 0
        /\ play(St, now).res = "NotLoaded"

\* a seek failed on a controller that had a sink and an anchor
C9_Witness ==
    /\ FailedCall /\ last.op = "seek"
    /\ pre.sink /\ pre.anchor /\ sinceOp > 0

\* C10: after a load or seek has failed, until a later load succeeds no call
\* re-installs a sink, seek does not succeed, and the calls that need a sink
\* fail with NotLoadedError.
C10_MustLoadAgain ==
    afterFailure # "no" =>
        /\ sink = None
        /\ last.op = "seek" => last.res # "ok"
        /\ last.op \in {"play", "pause", "set_volume"} => last.res = "NotLoaded"

\* C10 (amended): after a load or seek has failed, until a later load or seek
\* succeeds no sink exists and play, pause and set_volume fail with
\* NotLoadedError.
C10_MustLoadOrSeekAgain ==
    afterFailure = "yes" =>
        /\ sink = None
        /\ start_time = None
        /\ last.op \in {"play", "pause", "set_volume"} => last.res = "NotLoaded"

\* play was refused after a failure on a controller that still stores a path
C10_Witness ==
    /\ afterFailure = "yes" /\ current_file # None
    /\ last.op = "play" /\ last.res = "NotLoaded"

\* A step that is a call of op: calls leave the clock alone, ticks move it.
Called(op) == now' = now /\ last'.op = op
Queries == {"get_duration", "get_position", "is_playing", "is_paused"}

\* C11: pause() leaves play_anchor unchanged, and while the controller stays
\* Paused get_position() keeps growing with wall-clock time.
C11_PauseKeepsAnchor ==
    [][/\ Called("pause") => start_time' = start_time
       /\ (now' = now + 1 /\ is_paused(St) /\ start_time # None)
            => (is_paused(St') /\ get_position(St', now') = get_position(St, now) + 1)]_vars

\* paused, with an anchor, and the reported position has moved on since the pause
C11_Witness ==
    /\ Succeeded("pause") /\ is_paused(St) /\ pre.anchor
    /\ sinceOp > 0 /\ get_position(St, now) >= sinceOp /\ start_time # None

\* C12: with no sink, play(), pause() and set_volume(v) fail with NotLoadedError,
\* seek fails with NotLoadedError when no file was loaded, and each of these
\* failures leaves sink, current_path, total_duration and play_anchor as they were.
C12_NoSinkNotLoaded ==
    /\ sink = None =>
        /\ play(St, now) = Err(St, "NotLoaded")
        /\ pause(St) = Err(St, "NotLoaded")
        /\ \A v \in Volumes : set_volume(St, v) = Err(St, "NotLoaded")
    /\ current_file = None =>
        \A x \in Positions, f \in Files, dev \in BOOLEAN : seek(St, x, f, dev, now) = Err(St, "NotLoaded")
    /\ (last.op \in {"play", "pause", "set_volume"} /\ ~pre.sink) =>
        (last.res = "NotLoaded" /\ sink = None /\ (start_time # None) = pre.anchor)

\* set_volume was refused on a controller that has a file but no sink
C12_Witness ==
    /\ last.op = "set_volume" /\ last.res = "NotLoaded"
    /\ current_file # None /\ duration > 0 /\ sink = None

\* C16: total_duration and current_path change only in a successful load (both)
\* or a successful seek (duration only); every other call, failed loads and
\* seeks included, leaves them alone, and the four queries change nothing.
C16_DurationPathFrame ==
    [][/\ (\E op \in {"play", "pause", "stop", "set_volume"} \cup Queries : Called(op))
            => UNCHANGED <<duration, current_file>>
       /\ (\E op \in Queries : Called(op))
            => UNCHANGED <<sink, current_file, duration, start_time>>
       /\ ((Called("load_file") \/ Called("seek")) /\ last'.res # "ok")
            => UNCHANGED <<duration, current_file>>
       /\ Called("seek") => current_file' = current_file
       /\ now' # now => UNCHANGED <<duration, current_file>>]_vars

\* a load failed on a controller that had a session: path and duration survive
C16_Witness ==
    /\ FailedCall /\ last.op = "load_file" /\ pre.sink
    /\ current_file # None /\ duration > 0

\* C19: a successful seek discards exactly
\* min(round(clamped * sample_rate) * channels, samples in the file) samples from
\* the start of a fresh decode, whole frames when the file is long enough, and
\* queues exactly the rest, in order; the discard loop ends on short files too.
C19_SeekDiscards ==
    current_file # None =>
        \A x \in Positions, f \in Files :
            LET r == seek(St, x, f, TRUE, now)
                frames == Clamp(x, 0, DecoderDuration(f)) * f.rate
                k == Min(frames * f.channels, f.samples)
                loop == SkipLoop(Decode(f), 0, frames * f.channels)
            IN r.res = "ok" =>
                /\ loop.skipped = k
                /\ loop.rest = SubSeq(Decode(f), k + 1, f.samples)
                /\ Unwrap(r.st.sink).queued = Len(loop.rest)
                /\ Unwrap(r.st.sink).len = 1
                /\ (frames * f.channels <= f.samples) => (k = frames * f.channels /\ k % f.channels = 0)

\* a seek whose target lies beyond the samples the file holds: the loop ran out
C19_Witness ==
    /\ Succeeded("seek") /\ sinceOp = 0 /\ Unwrap(seekArg) >= 2
    /\ Unwrap(sink).perTick = 2 /\ Unwrap(sink).queued = 0

\* ------------------------------------------------------------ get_waveform claims
Returns == wave.pc = "done"
Decodable(f) == f.open /\ f.decodes
Silent(f) == \A i \in 1 .. Len(f.data) : f.data[i] = 0

\* A peak that is exactly 0.0.
IsZeroPeak(p) == p = F32Zero

\* C13: for every requested n and every decodable file get_waveform returns
\* Ok with exactly clamp(n, 8, 4096) peaks; it returns an error only when the
\* file cannot be opened or decoded, and the sample loop never runs past the
\* source.
C13_WaveformLength ==
    /\ wave.pc = "loop" => wave.sample_index <= Len(wave.file.data) /\ Len(wave.bucket_samples) = Clamp(wave.n, 8, 4096)
    /\ Returns => IF Decodable(wave.file)
                  THEN wave.res = "ok" /\ Len(wave.peaks) = Clamp(wave.n, 8, 4096)
                  ELSE wave.res = (IF wave.file.open THEN "Decode" ELSE "Io") /\ wave.peaks = <<>>

C13_Witness ==
    /\ Returns /\ wave.res = "ok"
    /\ wave.n > 4096 /\ Len(wave.peaks) = 4096
    /\ Len(wave.file.data) >= 2

\* C14: a bucket that received no sample has peak exactly 0, and for a file
\* whose samples are all zero the maximum found is 0, so that no peak is
\* divided by it, and every returned peak is exactly 0.
C14_SilenceIsZero ==
    (Returns /\ wave.res = "ok") =>
        /\ \A i \in 1 .. Len(wave.peaks) : wave.bucket_samples[i] = <<>> => IsZeroPeak(wave.peaks[i])
        /\ Silent(wave.file) =>
              /\ wave.max_peak = Some(F32Zero)
              /\ \A i \in 1 .. Len(wave.peaks) : IsZeroPeak(wave.peaks[i])

C14_Witness ==
    /\ Returns /\ wave.res = "ok"
    /\ Len(wave.file.data) >= 2 /\ Silent(wave.file)
    /\ \E i \in 1 .. Len(wave.peaks) : wave.bucket_samples[i] # <<>>
    /\ \E i \in 1 .. Len(wave.peaks) : wave.bucket_samples[i] = <<>>

\* round(duration * sample_rate) for a duration of h half ticks: the whole
\* number nearest to h * rate / 2, the upper one when there are two.
Rounded(h, rate) == CHOOSE r \in 0 .. h * rate : 2 * r - 1 <= h * rate /\ h * rate < 2 * r + 1

\* C18: the sample at position s goes to bucket
\* min(n - 1, floor((s div channels) * n / total_frames)) with total_frames =
\* max(1, round(duration * sample_rate)); that index is within [0, n - 1], is
\* the same for the samples of one frame, never decreases as s grows, and is
\* n - 1 for every frame at or past total_frames; when the source has run out
\* each bucket holds exactly the contiguous run of samples sent to it, in order.
C18_BucketOfSample ==
    wave.pc \in {"loop", "peaks", "done"} /\ Decodable(wave.file) =>
        LET f == wave.file
            n == wave.buckets
            total_frames == Max(1, Rounded(IF f.hasDur THEN f.durHalves ELSE 0, f.rate))
            frame(s) == s \div f.channels
            at(s) == wave.assigned[s + 1]
            placed == 0 .. Len(wave.assigned) - 1
        IN /\ \A s \in placed :
                /\ at(s) = Min(n - 1, (frame(s) * n) \div total_frames)
                /\ at(s) >= 0 /\ at(s) <= n - 1
                /\ frame(s) >= total_frames => at(s) = n - 1
                /\ \A t \in placed : (frame(s) = frame(t) => at(s) = at(t)) /\ (s <= t => at(s) <= at(t))
           /\ wave.pc = "peaks" => \A b \in 0 .. n - 1 :
                IF \E s \in placed : at(s) = b
                THEN wave.bucket_samples[b + 1] = [i \in 1 .. Cardinality({s \in placed : at(s) = b}) |->
                                                      f.data[i + Cardinality({s \in placed : at(s) < b})]]
                ELSE wave.bucket_samples[b + 1] = <<>>

C18_Witness ==
    /\ Returns /\ wave.res = "ok"
    /\ wave.file.channels = 2 /\ Len(wave.assigned) >= 3
    /\ wave.total_frames = 1
    /\ wave.assigned[1] = 0 /\ wave.assigned[2] = 0 /\ wave.assigned[3] = wave.buckets - 1

\* ------------------------------------------------------------ claims about calls in steps
Made == Cardinality({t \in Threads : threads[t].made})
InField == IF sink = None THEN 0 ELSE 1
AllIdle == \A t \in Threads : threads[t] = Idle

\* C15: when calls are made one after another, at most one sink is alive at
\* any moment: the live sinks are the one in the field and the one a running
\* load_file or seek has created and not yet stored, never both, so a new sink
\* is created only after the previous one was released; between calls the only
\* live sink is the one in the field, also after a load_file or seek that
\* failed.
C15_OneLiveSink ==
    /\ live = InField + Made
    /\ live <= 1
    /\ AllIdle => live = InField

\* a load_file has released the sink of a.wav and created its own, the only
\* live one, and is about to reopen the file, which may fail
C15_Witness ==
    \E t \in Threads :
        /\ threads[t].op = "load_file" /\ At(t, "reopen") /\ threads[t].made
        /\ live = 1 /\ sink = None /\ current_file = Some("a.wav")

\* the order in which guards are taken
Rank(l) ==
    CASE l = "stream_handle" -> 1
      [] l = "sink" -> 2
      [] l = "start_time" -> 3
      [] OTHER -> 4

\* C20: no deadlock is reachable.  A thread that waits for a lock holds only
\* locks that come before it in the order stream_handle, sink, start_time,
\* (current_file, duration), never current_file or duration, and never the
\* lock it waits for; and whenever a call is in progress some call in progress
\* can take its next step.
C20_NoDeadlock ==
    /\ \A t \in Threads : Needs(t) # NoThread =>
          /\ Needs(t) \notin Holding(t)
          /\ Holding(t) \cap {"current_file", "duration"} = {}
          /\ \A l \in Holding(t) : Rank(l) < Rank(Needs(t))
    /\ (~AllIdle) => \E t \in Threads : threads[t] # Idle /\ CanTake(t)

\* contention: a load_file that holds the stream handle waits to store its
\* sink while a stop on the other thread holds the sink and is about to take
\* the anchor
C20_Witness ==
    \E t \in Threads, u \in Threads :
        /\ t # u
        /\ held["stream_handle"] = t /\ At(t, "store_sink") /\ ~CanTake(t)
        /\ held["sink"] = u /\ At(u, "clear") /\ CanTake(u)

====
